---- MODULE Spec2Model ----
(***************************************************************************)
(* The mount command of the agentfs CLI and the daemonization handshake   *)
(* it uses (cli/src/cmd/mount.rs, cli/src/daemon.rs).                      *)
(*                                                                         *)
(* Two operating-system processes take part: the Originator (the process  *)
(* that calls mount / daemonize) and the Background process that fork()    *)
(* creates.  The Worker (daemon_fn) is a thread of the Background process *)
(* (or, in foreground mode, a plain call in the Originator).  The two     *)
(* processes share one pipe.  Every source line that touches shared state *)
(* is one action; the processes interleave freely.                         *)
(*                                                                         *)
(* Time: the only statement of the polling loop that lets time pass is    *)
(* thread::sleep(50 ms); the clock `elapsed` (start.elapsed(), in ms)      *)
(* advances by exactly PollInterval there and nowhere else.                *)
(***************************************************************************)
EXTENDS Integers, Sequences, FiniteSets, TLC

\* ------------------------------------------------------------------ bounds
\* Timeouts tried for a direct call of daemonize: 0, TimeoutStep, ...,
\* MaxTimeoutSteps * TimeoutStep (milliseconds).
MaxTimeoutSteps == 3
TimeoutStep == 40
\* How many times each of read(2) / write(2) may be interrupted (EINTR).
MaxEintr == 2
\* is_mounted: the paths tried have at most MaxDepth components, and the
\* device identifiers are 1..MaxDev.
MaxDepth == 2
MaxDev == 2

\* --------------------------------------------------------- program constants
\* Duration::from_millis(50), the sleep between two polls.
PollInterval == 50
\* Duration::from_secs(10), the timeout mount passes to daemonize (in ms).
MountTimeout == 10000
\* The two payloads of the outcome channel (signal_parent's buf).
READY == 0
FAILED == 1

Timeouts == {k * TimeoutStep : k \in 0..MaxTimeoutSteps}

VARIABLES
    \* ---- the invocation (inputs)
    caller,            \* "mount": mount(args); "daemonize": daemonize called directly
    resolveOk,         \* AgentFSOptions::resolve(&args.id_or_path) succeeds
    mountpointExists,  \* args.mountpoint.exists()
    foreground,        \* args.foreground
    timeout,           \* daemonize's timeout, ms
    \* ---- is_mounted(path), when called on its own
    probePath,         \* the argument `path`
    fsDev,             \* the file system: metadata(p).dev() of every path, NoMeta
                       \* where metadata(p) is an Err
    probepc,           \* position in is_mounted
    pathMeta,          \* path_meta.dev()
    parentPath,        \* parent
    parentMeta,        \* parent_meta.dev()
    probeResult,       \* the value returned: "none" until then, "true", "false"
    \* ---- the Originator
    origpc,            \* position of the Originator
    result,            \* what the call returned to its caller ("none" while running)
    success,           \* wait_for_signal's return value, once it has returned
    readKind,          \* how the read(2) that ended wait_for_signal's loop came out
    \* ---- the pipe and the file descriptors of both processes
    pipeBuf,           \* bytes written and not yet read
    origRead, origWrite,   \* the Originator's read_fd / write_fd: "none", "open", "closed"
    bgRead, bgWrite,       \* the Background process's copies
    \* ---- the Background process
    bgpc,              \* position of the Background main thread ("none": no such process)
    bgExit,            \* "none", "exit0", "exit1", "killed"
    detached,          \* setsid() succeeded
    stdio,             \* "inherited" or "devnull"
    ready,             \* the loop's value `ready`
    breakReason,       \* which break ended the loop: "none", "ready", "finished", "deadline"
    elapsed,           \* start.elapsed(), ms
    worker,            \* daemon_fn: "not_started", "running", "ok", "err", "panic", "killed"
    \* ---- the environment
    mounted,           \* what ready_check() would return now
    eintrReads, eintrWrites,  \* interruptions so far
    \* ---- history
    probeCalls,        \* evaluations of ready_check()
    lateProbeCalls,    \* ... of them, made with start.elapsed() >= timeout
    probeEverTrue,     \* ready_check() has returned true
    sent,              \* the bytes ever written to the pipe, in order
    bytesRead,         \* bytes ever read from the pipe
    workerEndedUnready,\* "no"; the Worker terminated before ready_check() had ever
                       \* returned true, the Probe being false ("probe_false") or true
                       \* ("probe_true") at that moment
    sleepsAfterEnd,    \* sleeps of the loop begun after the Worker had terminated
    trueInTime         \* "no"; "alive": the Probe became true in time and has stayed true,
                       \* the Worker running ever since; "ended": the same, but the
                       \* Worker terminated afterwards, before the loop ended

probeVars == <<probePath, fsDev, probepc, pathMeta, parentPath, parentMeta, probeResult>>
inputVars == <<caller, resolveOk, mountpointExists, foreground, timeout, probeVars>>
origVars == <<origpc, result, success, readKind>>
fdVars == <<pipeBuf, origRead, origWrite, bgRead, bgWrite>>
bgVars == <<bgpc, bgExit, detached, stdio, ready, breakReason, elapsed>>
envVars == <<mounted, eintrReads, eintrWrites>>
histVars == <<probeCalls, lateProbeCalls, probeEverTrue, sent, bytesRead,
              workerEndedUnready, sleepsAfterEnd, trueInTime>>
vars == <<inputVars, origVars, fdVars, bgVars, worker, envVars, histVars>>

\* ------------------------------------------------------------ pure helpers

\* Mutant of SignalByte: the two payloads swapped.
SignalByteInverted(s) == IF s THEN FAILED ELSE READY

\* signal_parent: the byte sent for `success`.
SignalByte(s) == IF s THEN READY ELSE FAILED

\* Mutant of WaitForSignal: end-of-file taken for success.
WaitForSignalEofTrue(n, b, eintr) ==
    IF n = 1 THEN (IF b = 0 THEN "true" ELSE "false")
    ELSE IF n = 0 THEN "true"
    ELSE IF n = -1 THEN (IF eintr THEN "retry" ELSE "false")
    ELSE "false"

\* Mutant of WaitForSignal: EINTR not retried, treated like any other error.
WaitForSignalNoRetry(n, b, eintr) ==
    IF n = 1 THEN (IF b = 0 THEN "true" ELSE "false")
    ELSE "false"

\* wait_for_signal: what the loop does with read(2)'s return value n, the byte b
\* in buf and errno: "retry" (continue), or the value returned.
WaitForSignal(n, b, eintr) ==
    IF n = 1 THEN (IF b = 0 THEN "true" ELSE "false")
    ELSE IF n = 0 THEN "false"
    ELSE IF n = -1 THEN (IF eintr THEN "retry" ELSE "false")
    ELSE "false"

\* JoinHandle::is_finished.
IsFinished(w) == w \in {"ok", "err", "panic"}

\* Mutant of DeadlineReached: > for >=.
DeadlineReachedStrict(e, t) == e > t

\* start.elapsed() >= timeout.
DeadlineReached(e, t) == e >= t

\* Mutant of JoinExit: the Worker's result is dropped.
JoinExitAlwaysZero(w) == "exit0"

\* match daemon_thread.join() { Ok(Ok(())) => exit(0), _ => exit(1) }.
JoinExit(w) == IF w = "ok" THEN "exit0" ELSE "exit1"

\* The Worker is a thread of the Background process: when the process ends
\* (process::exit or a kill) a Worker still running ends with it.
WorkerAfterExit(w) == IF w = "running" THEN "killed" ELSE w

\* An fd of a process that ends is closed by the kernel.
FdAfterExit(fd) == IF fd = "open" THEN "closed" ELSE fd

\* read(2) on the pipe would return end-of-file: no data and no write-end open
\* in either process.
NoWriter == origWrite # "open" /\ bgWrite # "open"

InLoop == bgpc \in {"start", "poll_ready", "poll_finished", "poll_deadline", "sleep"}

\* The Probe turning (or being) true now counts as "in time": the Worker runs,
\* the loop has not ended, and the deadline has not passed (or no poll was made yet).
Eligible ==
    /\ worker = "running"
    /\ InLoop
    /\ (elapsed < timeout \/ probeCalls = 0)

\* ------------------------------------------------- paths (for is_mounted)

\* A path is absolute or relative and has a sequence of components; every
\* component is the one name "a".  "/" is RootPath, "" is EmptyPath.
Paths == [abs : BOOLEAN, comps : UNION {[1..n -> {"a"}] : n \in 0..MaxDepth}]
RootPath == [abs |-> TRUE, comps |-> <<>>]
EmptyPath == [abs |-> FALSE, comps |-> <<>>]

\* metadata(p) is an Err.
NoMeta == 0
Devs == 1..MaxDev

\* Path::parent: None for "/" and "", else the path without its last component.
HasParent(p) == p.comps # <<>>
Parent(p) == [abs |-> p.abs, comps |-> SubSeq(p.comps, 1, Len(p.comps) - 1)]

\* Mutant of ParentOrRoot: an empty parent is used as it is.
ParentNoFallback(p) == IF HasParent(p) THEN Parent(p) ELSE RootPath

\* match path.parent() { Some(p) if !p.as_os_str().is_empty() => p, _ => "/" }
ParentOrRoot(p) ==
    IF HasParent(p) /\ Parent(p) # EmptyPath THEN Parent(p) ELSE RootPath

\* ------------------------------------------------------------------- Init
\* The state of mount and daemonize before anything has run.
InitCore ==
    /\ result = "none"
    /\ success = "unset"
    /\ readKind = "none"
    /\ pipeBuf = <<>>
    /\ origRead = "none" /\ origWrite = "none"
    /\ bgRead = "none" /\ bgWrite = "none"
    /\ bgpc = "none"
    /\ bgExit = "none"
    /\ detached = FALSE
    /\ stdio = "inherited"
    /\ ready = FALSE
    /\ breakReason = "none"
    /\ elapsed = 0
    /\ worker = "not_started"
    /\ mounted \in BOOLEAN
    /\ eintrReads = 0 /\ eintrWrites = 0
    /\ probeCalls = 0 /\ lateProbeCalls = 0
    /\ probeEverTrue = FALSE
    /\ sent = <<>> /\ bytesRead = 0
    /\ workerEndedUnready = "no"
    /\ sleepsAfterEnd = 0
    /\ trueInTime = "no"

\* What mount and daemonize start from: nothing has run yet, and is_mounted
\* is not looked into (ready_check is the Probe's answer `mounted`).
InitRest ==
    /\ probePath = RootPath
    /\ fsDev = [p \in Paths |-> NoMeta]
    /\ probepc = "idle"
    /\ pathMeta = NoMeta
    /\ parentPath = RootPath
    /\ parentMeta = NoMeta
    /\ probeResult = "none"
    /\ InitCore

\* daemonize(daemon_fn, ready_check, timeout) called directly, with any of the
\* timeouts tried.
Init ==
    /\ caller = "daemonize"
    /\ resolveOk = TRUE
    /\ mountpointExists = TRUE
    /\ foreground = FALSE
    /\ timeout \in Timeouts
    /\ origpc = "pipe"
    /\ InitRest

\* mount(args) with any arguments; it passes daemonize the timeout of 10 s.
InitMount ==
    /\ caller = "mount"
    /\ resolveOk \in BOOLEAN
    /\ mountpointExists \in BOOLEAN
    /\ foreground \in BOOLEAN
    /\ timeout = MountTimeout
    /\ origpc = "resolve"
    /\ InitRest

\* is_mounted(path) called on its own, for any path and any file system (the
\* empty path has no metadata); mount and daemonize are not running.
InitProbe ==
    /\ probePath \in Paths
    /\ fsDev \in [Paths -> Devs \cup {NoMeta}]
    /\ fsDev[EmptyPath] = NoMeta
    /\ probepc = "path_meta"
    /\ pathMeta = NoMeta
    /\ parentPath = RootPath
    /\ parentMeta = NoMeta
    /\ probeResult = "none"
    /\ caller = "is_mounted"
    /\ resolveOk = TRUE
    /\ mountpointExists = TRUE
    /\ foreground = FALSE
    /\ timeout = 0
    /\ origpc = "done"
    /\ InitCore

\* ------------------------------------------------- is_mounted (mount.rs)

probeRest == <<caller, resolveOk, mountpointExists, foreground, timeout,
               origVars, fdVars, bgVars, worker, envVars, histVars>>

\* let path_meta = match std::fs::metadata(path) { Ok(m) => m, Err(_) => return false };
ProbePathMeta ==
    /\ probepc = "path_meta"
    /\ IF fsDev[probePath] = NoMeta
         THEN /\ probeResult' = "false"
              /\ probepc' = "returned"
              /\ UNCHANGED pathMeta
         ELSE /\ pathMeta' = fsDev[probePath]
              /\ probepc' = "parent"
              /\ UNCHANGED probeResult
    /\ UNCHANGED <<probePath, fsDev, parentPath, parentMeta, probeRest>>

\* let parent = match path.parent() { ... };
ProbeParent ==
    /\ probepc = "parent"
    /\ parentPath' = ParentOrRoot(probePath)
    /\ probepc' = "parent_meta"
    /\ UNCHANGED <<probePath, fsDev, pathMeta, parentMeta, probeResult, probeRest>>

\* let parent_meta = match std::fs::metadata(parent) { Ok(m) => m, Err(_) => return false };
ProbeParentMeta ==
    /\ probepc = "parent_meta"
    /\ IF fsDev[parentPath] = NoMeta
         THEN /\ probeResult' = "false"
              /\ probepc' = "returned"
              /\ UNCHANGED parentMeta
         ELSE /\ parentMeta' = fsDev[parentPath]
              /\ probepc' = "compare"
              /\ UNCHANGED probeResult
    /\ UNCHANGED <<probePath, fsDev, pathMeta, parentPath, probeRest>>

\* path_meta.dev() != parent_meta.dev()
ProbeCompare ==
    /\ probepc = "compare"
    /\ probeResult' = IF pathMeta # parentMeta THEN "true" ELSE "false"
    /\ probepc' = "returned"
    /\ UNCHANGED <<probePath, fsDev, pathMeta, parentPath, parentMeta, probeRest>>

NextProbe == ProbePathMeta \/ ProbeParent \/ ProbeParentMeta \/ ProbeCompare

SpecProbe == InitProbe /\ [][NextProbe]_vars

\* ------------------------------------------------------------ mount (mount.rs)

\* let opts = AgentFSOptions::resolve(&args.id_or_path)?;
MountResolve ==
    /\ origpc = "resolve"
    /\ IF resolveOk
         THEN origpc' = "exists" /\ result' = result
         ELSE origpc' = "done" /\ result' = "ErrResolve"
    /\ UNCHANGED <<inputVars, success, readKind, fdVars, bgVars, worker, envVars, histVars>>

\* Mutant of MountCheckExists: the check is missing.
MountCheckExistsSkipped ==
    /\ origpc = "exists"
    /\ origpc' = "dispatch"
    /\ UNCHANGED <<inputVars, result, success, readKind, fdVars, bgVars, worker, envVars,
                   histVars>>

\* if !args.mountpoint.exists() { bail!("Mountpoint does not exist") }
MountCheckExists ==
    /\ origpc = "exists"
    /\ IF mountpointExists
         THEN origpc' = "dispatch" /\ result' = result
         ELSE origpc' = "done" /\ result' = "ErrMountpoint"
    /\ UNCHANGED <<inputVars, success, readKind, fdVars, bgVars, worker, envVars, histVars>>

\* Mutant of MountForeground: the flag is ignored, the call goes to daemonize.
MountForegroundDaemonizes ==
    /\ origpc = "dispatch"
    /\ foreground
    /\ origpc' = "pipe"
    /\ UNCHANGED <<inputVars, result, success, readKind, fdVars, bgVars, worker, envVars,
                   histVars>>

\* if args.foreground { mount() }: the Worker runs as a call in the Originator.
MountForeground ==
    /\ origpc = "dispatch"
    /\ foreground
    /\ origpc' = "fg_run"
    /\ worker' = "running"
    /\ UNCHANGED <<inputVars, result, success, readKind, fdVars, bgVars, envVars, histVars>>

\* mount() returned (or unwound) in the Originator: its result is mount's result.
MountForegroundReturn ==
    /\ origpc = "fg_run"
    /\ IsFinished(worker)
    /\ origpc' = "done"
    /\ result' = CASE worker = "ok" -> "Ok"
                   [] worker = "err" -> "ErrWorker"
                   [] OTHER -> "Panic"
    /\ UNCHANGED <<inputVars, success, readKind, fdVars, bgVars, worker, envVars, histVars>>

\* else { crate::daemon::daemonize(mount, is_mounted, 10 s) }
MountDaemonize ==
    /\ origpc = "dispatch"
    /\ ~foreground
    /\ origpc' = "pipe"
    /\ UNCHANGED <<inputVars, result, success, readKind, fdVars, bgVars, worker, envVars, histVars>>

\* --------------------------------------------- daemonize, before the fork

\* libc::pipe(pipe_fds) == 0
PipeOk ==
    /\ origpc = "pipe"
    /\ origRead' = "open"
    /\ origWrite' = "open"
    /\ origpc' = "fork"
    /\ UNCHANGED <<inputVars, result, success, readKind, pipeBuf, bgRead, bgWrite,
                   bgVars, worker, envVars, histVars>>

\* libc::pipe(pipe_fds) != 0: bail!("Failed to create pipe")
PipeFail ==
    /\ origpc = "pipe"
    /\ origpc' = "done"
    /\ result' = "ErrPipe"
    /\ UNCHANGED <<inputVars, success, readKind, fdVars, bgVars, worker, envVars, histVars>>

\* libc::fork() returned the child's pid in the Originator and 0 in the new
\* Background process, which holds copies of both descriptors.
ForkOk ==
    /\ origpc = "fork"
    /\ origpc' = "p_close_write"
    /\ bgpc' = "close_read"
    /\ bgRead' = origRead
    /\ bgWrite' = origWrite
    /\ UNCHANGED <<inputVars, result, success, readKind, pipeBuf, origRead, origWrite,
                   bgExit, detached, stdio, ready, breakReason, elapsed,
                   worker, envVars, histVars>>

\* Mutant of ForkFail: the descriptors are not closed.
ForkFailLeaksFds ==
    /\ origpc = "fork"
    /\ origpc' = "done"
    /\ result' = "ErrFork"
    /\ UNCHANGED <<inputVars, success, readKind, fdVars, bgVars, worker, envVars, histVars>>

\* libc::fork() == -1: close(read_fd); close(write_fd); bail!("Fork failed")
ForkFail ==
    /\ origpc = "fork"
    /\ origRead' = "closed"
    /\ origWrite' = "closed"
    /\ origpc' = "done"
    /\ result' = "ErrFork"
    /\ UNCHANGED <<inputVars, success, readKind, pipeBuf, bgRead, bgWrite,
                   bgVars, worker, envVars, histVars>>

\* ------------------------------------------ daemonize, the parent's branch

\* Mutant of ParentCloseWrite: the parent keeps its write-end open.
ParentKeepsWrite ==
    /\ origpc = "p_close_write"
    /\ origpc' = "p_read"
    /\ UNCHANGED <<inputVars, result, success, readKind, fdVars, bgVars, worker, envVars,
                   histVars>>

\* unsafe { libc::close(write_fd) };
ParentCloseWrite ==
    /\ origpc = "p_close_write"
    /\ origWrite' = "closed"
    /\ origpc' = "p_read"
    /\ UNCHANGED <<inputVars, result, success, readKind, pipeBuf, origRead, bgRead, bgWrite,
                   bgVars, worker, envVars, histVars>>

\* wait_for_signal: read(2) returns one byte (n == 1).
ParentReadByte ==
    /\ origpc = "p_read"
    /\ origRead = "open"
    /\ pipeBuf # <<>>
    /\ LET r == WaitForSignal(1, Head(pipeBuf), FALSE) IN
         /\ success' = IF r = "retry" THEN success ELSE r
         /\ origpc' = IF r = "retry" THEN "p_read" ELSE "p_close_read"
    /\ readKind' = IF Head(pipeBuf) = READY THEN "ready" ELSE "failed"
    /\ pipeBuf' = Tail(pipeBuf)
    /\ bytesRead' = bytesRead + 1
    /\ UNCHANGED <<inputVars, result, origRead, origWrite, bgRead, bgWrite,
                   bgVars, worker, envVars,
                   probeCalls, lateProbeCalls, probeEverTrue, sent,
                   workerEndedUnready, sleepsAfterEnd, trueInTime>>

\* wait_for_signal: read(2) returns 0, end-of-file: the pipe is empty and no
\* process holds the write-end open.  (While a write-end is open and the pipe
\* is empty, read(2) blocks.)
ParentReadEof ==
    /\ origpc = "p_read"
    /\ origRead = "open"
    /\ pipeBuf = <<>>
    /\ NoWriter
    /\ LET r == WaitForSignal(0, 0, FALSE) IN
         /\ success' = IF r = "retry" THEN success ELSE r
         /\ origpc' = IF r = "retry" THEN "p_read" ELSE "p_close_read"
    /\ readKind' = "eof"
    /\ UNCHANGED <<inputVars, result, fdVars, bgVars, worker, envVars, histVars>>

\* wait_for_signal: read(2) returns -1 with errno EINTR: continue.
ParentReadEintr ==
    /\ origpc = "p_read"
    /\ eintrReads < MaxEintr
    /\ eintrReads' = eintrReads + 1
    /\ LET r == WaitForSignal(-1, 0, TRUE) IN
         /\ success' = IF r = "retry" THEN success ELSE r
         /\ origpc' = IF r = "retry" THEN "p_read" ELSE "p_close_read"
         /\ readKind' = IF r = "retry" THEN readKind ELSE "eintr"
    /\ UNCHANGED <<inputVars, result, fdVars, bgVars, worker, mounted, eintrWrites, histVars>>

\* wait_for_signal: read(2) returns -1 with another errno.
ParentReadError ==
    /\ origpc = "p_read"
    /\ LET r == WaitForSignal(-1, 0, FALSE) IN
         /\ success' = IF r = "retry" THEN success ELSE r
         /\ origpc' = IF r = "retry" THEN "p_read" ELSE "p_close_read"
    /\ readKind' = "error"
    /\ UNCHANGED <<inputVars, result, fdVars, bgVars, worker, envVars, histVars>>

\* unsafe { libc::close(read_fd) };
ParentCloseRead ==
    /\ origpc = "p_close_read"
    /\ origRead' = "closed"
    /\ origpc' = "p_return"
    /\ UNCHANGED <<inputVars, result, success, readKind, pipeBuf, origWrite, bgRead, bgWrite,
                   bgVars, worker, envVars, histVars>>

\* if success { Ok(()) } else { bail!("Daemon failed to start") }
ParentReturn ==
    /\ origpc = "p_return"
    /\ result' = IF success = "true" THEN "Ok" ELSE "ErrDaemon"
    /\ origpc' = "done"
    /\ UNCHANGED <<inputVars, success, readKind, fdVars, bgVars, worker, envVars, histVars>>

\* ------------------------------------------- daemonize, the child's branch

\* std::process::exit / a kill: the process ends, the kernel closes its
\* descriptors, its threads end.
ProcessEnds(code) ==
    /\ bgpc' = "exited"
    /\ bgExit' = code
    /\ bgRead' = FdAfterExit(bgRead)
    /\ bgWrite' = FdAfterExit(bgWrite)
    /\ worker' = WorkerAfterExit(worker)

\* unsafe { libc::close(read_fd) };
ChildCloseRead ==
    /\ bgpc = "close_read"
    /\ bgRead' = "closed"
    /\ bgpc' = "setsid"
    /\ UNCHANGED <<inputVars, origVars, pipeBuf, origRead, origWrite, bgWrite,
                   bgExit, detached, stdio, ready, breakReason, elapsed,
                   worker, envVars, histVars>>

\* libc::setsid() != -1
SetsidOk ==
    /\ bgpc = "setsid"
    /\ detached' = TRUE
    /\ bgpc' = "redirect"
    /\ UNCHANGED <<inputVars, origVars, fdVars, bgExit, stdio, ready, breakReason, elapsed,
                   worker, envVars, histVars>>

\* Mutant of SetsidFail: the failure is ignored and the child goes on.
SetsidFailIgnored ==
    /\ bgpc = "setsid"
    /\ bgpc' = "redirect"
    /\ UNCHANGED <<inputVars, origVars, fdVars, bgExit, detached, stdio, ready, breakReason,
                   elapsed, worker, envVars, histVars>>

\* libc::setsid() == -1: go on to signal_parent(write_fd, false)
SetsidFail ==
    /\ bgpc = "setsid"
    /\ bgpc' = "signal_detach"
    /\ UNCHANGED <<inputVars, origVars, fdVars, bgExit, detached, stdio, ready, breakReason,
                   elapsed, worker, envVars, histVars>>

\* The argument of the signal_parent call the Background process is in.
SignalArg == IF bgpc = "signal" THEN ready ELSE FALSE

\* Where the Background process goes on after signal_parent returned.
AfterSignal == IF bgpc = "signal" THEN "close_write" ELSE "exit_detach"

\* Mutant of SignalParentWrite: no return after the write, the loop writes again.
SignalParentWriteNoReturn ==
    /\ bgpc \in {"signal", "signal_detach"}
    /\ bgWrite = "open"
    /\ origRead = "open"
    /\ Len(sent) < 3
    /\ pipeBuf' = Append(pipeBuf, SignalByte(IF bgpc = "signal" THEN ready ELSE FALSE))
    /\ sent' = Append(sent, SignalByte(IF bgpc = "signal" THEN ready ELSE FALSE))
    /\ bgpc' \in {bgpc, IF bgpc = "signal" THEN "close_write" ELSE "exit_detach"}
    /\ UNCHANGED <<inputVars, origVars, origRead, origWrite, bgRead, bgWrite,
                   bgExit, detached, stdio, ready, breakReason, elapsed,
                   worker, envVars,
                   probeCalls, lateProbeCalls, probeEverTrue, bytesRead,
                   workerEndedUnready, sleepsAfterEnd, trueInTime>>

\* signal_parent: write(2) returns 1: the byte is in the pipe, return Ok.
SignalParentWrite ==
    /\ bgpc \in {"signal", "signal_detach"}
    /\ bgWrite = "open"
    /\ origRead = "open"
    /\ pipeBuf' = Append(pipeBuf, SignalByte(SignalArg))
    /\ sent' = Append(sent, SignalByte(SignalArg))
    /\ bgpc' = AfterSignal
    /\ UNCHANGED <<inputVars, origVars, origRead, origWrite, bgRead, bgWrite,
                   bgExit, detached, stdio, ready, breakReason, elapsed,
                   worker, envVars,
                   probeCalls, lateProbeCalls, probeEverTrue, bytesRead,
                   workerEndedUnready, sleepsAfterEnd, trueInTime>>

\* signal_parent: write(2) returns -1 with errno EINTR: continue.
SignalParentEintr ==
    /\ bgpc \in {"signal", "signal_detach"}
    /\ eintrWrites < MaxEintr
    /\ eintrWrites' = eintrWrites + 1
    /\ UNCHANGED <<inputVars, origVars, fdVars, bgVars, worker, mounted, eintrReads, histVars>>

\* signal_parent: write(2) returns -1 with another errno (or 0): bail; the
\* caller drops the error (let _ = ...).
SignalParentError ==
    /\ bgpc \in {"signal", "signal_detach"}
    /\ bgpc' = AfterSignal
    /\ UNCHANGED <<inputVars, origVars, fdVars, bgExit, detached, stdio, ready, breakReason,
                   elapsed, worker, envVars, histVars>>

\* std::process::exit(1) after the failed setsid.
ChildExitDetachFail ==
    /\ bgpc = "exit_detach"
    /\ ProcessEnds("exit1")
    /\ UNCHANGED <<inputVars, origVars, pipeBuf, origRead, origWrite,
                   detached, stdio, ready, breakReason, elapsed, envVars, histVars>>

\* redirect_stdio_to_devnull: open("/dev/null") >= 0, dup2 onto 0, 1, 2.
RedirectOk ==
    /\ bgpc = "redirect"
    /\ stdio' = "devnull"
    /\ bgpc' = "spawn"
    /\ UNCHANGED <<inputVars, origVars, fdVars, bgExit, detached, ready, breakReason, elapsed,
                   worker, envVars, histVars>>

\* redirect_stdio_to_devnull: open("/dev/null") < 0: nothing is done.
RedirectOpenFails ==
    /\ bgpc = "redirect"
    /\ bgpc' = "spawn"
    /\ UNCHANGED <<inputVars, origVars, fdVars, bgExit, detached, stdio, ready, breakReason,
                   elapsed, worker, envVars, histVars>>

\* let daemon_thread = std::thread::spawn(daemon_fn);
ChildSpawn ==
    /\ bgpc = "spawn"
    /\ worker' = "running"
    /\ bgpc' = "start"
    /\ trueInTime' = IF mounted THEN "alive" ELSE "no"
    /\ UNCHANGED <<inputVars, origVars, fdVars, bgExit, detached, stdio, ready, breakReason,
                   elapsed, envVars,
                   probeCalls, lateProbeCalls, probeEverTrue, sent, bytesRead,
                   workerEndedUnready, sleepsAfterEnd>>

\* let start = std::time::Instant::now();
ChildStart ==
    /\ bgpc = "start"
    /\ elapsed' = 0
    /\ bgpc' = "poll_ready"
    /\ UNCHANGED <<inputVars, origVars, fdVars, bgExit, detached, stdio, ready, breakReason,
                   worker, envVars, histVars>>

\* ready_check(): the Probe's answer now.
ReadyCheck == mounted

\* Mutant of PollReadyCheck: is_finished is tested before the Probe.
PollReadyCheckFinishedFirst ==
    /\ bgpc = "poll_ready"
    /\ probeCalls' = probeCalls + 1
    /\ lateProbeCalls' = lateProbeCalls + (IF elapsed >= timeout THEN 1 ELSE 0)
    /\ IF IsFinished(worker)
         THEN /\ ready' = FALSE
              /\ breakReason' = "finished"
              /\ bgpc' = "signal"
              /\ UNCHANGED probeEverTrue
         ELSE IF ReadyCheck
         THEN /\ ready' = TRUE
              /\ breakReason' = "ready"
              /\ bgpc' = "signal"
              /\ probeEverTrue' = TRUE
         ELSE /\ bgpc' = "poll_finished"
              /\ UNCHANGED <<ready, breakReason, probeEverTrue>>
    /\ UNCHANGED <<inputVars, origVars, fdVars, bgExit, detached, stdio, elapsed,
                   worker, envVars, sent, bytesRead,
                   workerEndedUnready, sleepsAfterEnd, trueInTime>>

\* Mutant of PollReadyCheck: the deadline is tested before the Probe.
PollReadyCheckDeadlineFirst ==
    /\ bgpc = "poll_ready"
    /\ probeCalls' = probeCalls + 1
    /\ lateProbeCalls' = lateProbeCalls + (IF elapsed >= timeout THEN 1 ELSE 0)
    /\ IF elapsed >= timeout
         THEN /\ ready' = FALSE
              /\ breakReason' = "deadline"
              /\ bgpc' = "signal"
              /\ UNCHANGED probeEverTrue
         ELSE IF ReadyCheck
         THEN /\ ready' = TRUE
              /\ breakReason' = "ready"
              /\ bgpc' = "signal"
              /\ probeEverTrue' = TRUE
         ELSE /\ bgpc' = "poll_finished"
              /\ UNCHANGED <<ready, breakReason, probeEverTrue>>
    /\ UNCHANGED <<inputVars, origVars, fdVars, bgExit, detached, stdio, elapsed,
                   worker, envVars, sent, bytesRead,
                   workerEndedUnready, sleepsAfterEnd, trueInTime>>

\* if ready_check() { break true; }
PollReadyCheck ==
    /\ bgpc = "poll_ready"
    /\ probeCalls' = probeCalls + 1
    /\ lateProbeCalls' = lateProbeCalls + (IF elapsed >= timeout THEN 1 ELSE 0)
    /\ IF ReadyCheck
         THEN /\ ready' = TRUE
              /\ breakReason' = "ready"
              /\ bgpc' = "signal"
              /\ probeEverTrue' = TRUE
         ELSE /\ bgpc' = "poll_finished"
              /\ UNCHANGED <<ready, breakReason, probeEverTrue>>
    /\ UNCHANGED <<inputVars, origVars, fdVars, bgExit, detached, stdio, elapsed,
                   worker, envVars, sent, bytesRead,
                   workerEndedUnready, sleepsAfterEnd, trueInTime>>

\* if daemon_thread.is_finished() { break false; }
PollIsFinished ==
    /\ bgpc = "poll_finished"
    /\ IF IsFinished(worker)
         THEN /\ ready' = FALSE
              /\ breakReason' = "finished"
              /\ bgpc' = "signal"
         ELSE /\ bgpc' = "poll_deadline"
              /\ UNCHANGED <<ready, breakReason>>
    /\ UNCHANGED <<inputVars, origVars, fdVars, bgExit, detached, stdio, elapsed,
                   worker, envVars, histVars>>

\* if start.elapsed() >= timeout { break false; }
PollDeadline ==
    /\ bgpc = "poll_deadline"
    /\ IF DeadlineReached(elapsed, timeout)
         THEN /\ ready' = FALSE
              /\ breakReason' = "deadline"
              /\ bgpc' = "signal"
         ELSE /\ bgpc' = "sleep"
              /\ UNCHANGED <<ready, breakReason>>
    /\ UNCHANGED <<inputVars, origVars, fdVars, bgExit, detached, stdio, elapsed,
                   worker, envVars, histVars>>

\* std::thread::sleep(Duration::from_millis(50));
PollSleep ==
    /\ bgpc = "sleep"
    /\ elapsed' = elapsed + PollInterval
    /\ bgpc' = "poll_ready"
    /\ sleepsAfterEnd' = sleepsAfterEnd + (IF IsFinished(worker) THEN 1 ELSE 0)
    /\ UNCHANGED <<inputVars, origVars, fdVars, bgExit, detached, stdio, ready, breakReason,
                   worker, envVars,
                   probeCalls, lateProbeCalls, probeEverTrue, sent, bytesRead,
                   workerEndedUnready, trueInTime>>

\* unsafe { libc::close(write_fd) };   (after signal_parent(write_fd, ready))
ChildCloseWrite ==
    /\ bgpc = "close_write"
    /\ bgWrite' = "closed"
    /\ bgpc' = "check_ready"
    /\ UNCHANGED <<inputVars, origVars, pipeBuf, origRead, origWrite, bgRead,
                   bgExit, detached, stdio, ready, breakReason, elapsed,
                   worker, envVars, histVars>>

\* Mutant of ChildCheckReady: no exit on failure, the process goes on to join.
ChildCheckReadyNoExit ==
    /\ bgpc = "check_ready"
    /\ bgpc' = "join"
    /\ UNCHANGED <<inputVars, origVars, fdVars, bgExit, detached, stdio, ready, breakReason,
                   elapsed, worker, envVars, histVars>>

\* if !ready { std::process::exit(1); }
ChildCheckReady ==
    /\ bgpc = "check_ready"
    /\ IF ~ready
         THEN ProcessEnds("exit1")
         ELSE /\ bgpc' = "join"
              /\ UNCHANGED <<bgExit, bgRead, bgWrite, worker>>
    /\ UNCHANGED <<inputVars, origVars, pipeBuf, origRead, origWrite,
                   detached, stdio, ready, breakReason, elapsed, envVars, histVars>>

\* Mutant of ChildJoin: after join the child falls out of the match and returns
\* from daemonize.
ChildJoinReturns ==
    /\ bgpc = "join"
    /\ IsFinished(worker)
    /\ bgpc' = "returned"
    /\ UNCHANGED <<inputVars, origVars, fdVars, bgExit, detached, stdio, ready, breakReason,
                   elapsed, worker, envVars, histVars>>

\* Mutant of ChildJoin: the child exits without waiting for the Worker.
ChildJoinNoWait ==
    /\ bgpc = "join"
    /\ bgpc' = "exited"
    /\ bgExit' = JoinExit(worker)
    /\ bgRead' = FdAfterExit(bgRead)
    /\ bgWrite' = FdAfterExit(bgWrite)
    /\ worker' = WorkerAfterExit(worker)
    /\ UNCHANGED <<inputVars, origVars, pipeBuf, origRead, origWrite,
                   detached, stdio, ready, breakReason, elapsed, envVars, histVars>>

\* match daemon_thread.join() { Ok(Ok(())) => exit(0), _ => exit(1) }:
\* join blocks until the Worker has terminated.
ChildJoin ==
    /\ bgpc = "join"
    /\ IsFinished(worker)
    /\ ProcessEnds(JoinExit(worker))
    /\ UNCHANGED <<inputVars, origVars, pipeBuf, origRead, origWrite,
                   detached, stdio, ready, breakReason, elapsed, envVars, histVars>>

\* ------------------------------------------------- the Worker and the Probe

\* daemon_fn returns Ok(()), returns Err, or panics.  It runs in the Background
\* process (a thread) or, in foreground mode, in the Originator.
WorkerFinish ==
    /\ worker = "running"
    /\ \E r \in {"ok", "err", "panic"} : worker' = r
    /\ workerEndedUnready' = IF probeEverTrue THEN "no"
                             ELSE IF mounted THEN "probe_true" ELSE "probe_false"
    /\ trueInTime' = IF InLoop /\ trueInTime = "alive" THEN "ended" ELSE trueInTime
    /\ UNCHANGED <<inputVars, origVars, fdVars, bgVars, envVars,
                   probeCalls, lateProbeCalls, probeEverTrue, sent, bytesRead,
                   sleepsAfterEnd>>

\* The state the Probe looks at changes (a mount appears or goes away).  Once
\* the loop has ended ready_check is not called again, and the changes are not
\* followed any further.
ProbeFlip ==
    /\ breakReason = "none"
    /\ mounted' = ~mounted
    /\ trueInTime' = IF InLoop
                       THEN (IF ~mounted /\ Eligible THEN "alive" ELSE "no")
                       ELSE trueInTime
    /\ UNCHANGED <<inputVars, origVars, fdVars, bgVars, worker, eintrReads, eintrWrites,
                   probeCalls, lateProbeCalls, probeEverTrue, sent, bytesRead,
                   workerEndedUnready, sleepsAfterEnd>>

\* ------------------------------------------------------------------ faults

\* The Background process is killed (or crashes) at any point of its life.
BgKilled ==
    /\ bgpc \notin {"none", "exited"}
    /\ ProcessEnds("killed")
    /\ UNCHANGED <<inputVars, origVars, pipeBuf, origRead, origWrite,
                   detached, stdio, ready, breakReason, elapsed, envVars, histVars>>

\* --------------------------------------------------------- specifications

MountStep ==
    \/ MountResolve \/ MountCheckExists \/ MountForeground \/ MountForegroundReturn
    \/ MountDaemonize

OrigStep ==
    \/ PipeOk \/ PipeFail \/ ForkOk \/ ForkFail
    \/ ParentCloseWrite \/ ParentReadByte \/ ParentReadEintr
    \/ ParentCloseRead \/ ParentReturn

BgStep ==
    \/ ChildCloseRead \/ SetsidOk \/ SetsidFail
    \/ SignalParentWrite \/ SignalParentEintr \/ ChildExitDetachFail
    \/ RedirectOk \/ RedirectOpenFails \/ ChildSpawn \/ ChildStart
    \/ PollReadyCheck \/ PollIsFinished \/ PollDeadline \/ PollSleep
    \/ ChildCloseWrite \/ ChildCheckReady \/ ChildJoin

EnvStep == WorkerFinish \/ ProbeFlip

\* What takes a fault: a kill, a failing read(2) or write(2), and the read(2)
\* that finds the pipe closed and empty (without a fault the Background
\* process writes its byte before it closes the write-end or exits).
FaultStep == BgKilled \/ ParentReadError \/ SignalParentError \/ ParentReadEof

\* daemonize where the kernel's pipe works and nobody kills the Background
\* process: system calls fail only in the ways the code tests for.
Next == OrigStep \/ BgStep \/ EnvStep

Spec == Init /\ [][Next]_vars

\* The same with faults: the Background process may be killed at any point,
\* read(2) and write(2) may fail with an errno other than EINTR.
NextFault == Next \/ FaultStep

SpecFault == Init /\ [][NextFault]_vars

\* The Originator is a running process: it keeps taking its steps.
FairSpecFault == Init /\ [][NextFault]_vars /\ WF_vars(OrigStep \/ ParentReadEof)

\* The mount command, which goes through daemonize unless in foreground mode.
NextMount == MountStep \/ Next

SpecMount == InitMount /\ [][NextMount]_vars

\* ------------------------------------------------------------------ claims

IsFailure(r) == r \in {"ErrDaemon", "ErrPipe", "ErrFork"}

\* C1 (under SpecFault).  In the Originator daemonize returns Ok exactly when
\* the read that ended wait_for_signal delivered the byte READY; a FAILED byte,
\* end-of-file and a read error other than EINTR each make it return an error.
C1_OkIffReadyByte ==
    /\ origpc \in {"p_close_read", "p_return", "done"} /\ readKind # "none" =>
          /\ readKind \in {"ready", "failed", "eof", "error"}
          /\ (success = "true") <=> (readKind = "ready")
    /\ origpc = "done" /\ readKind # "none" =>
          /\ (result = "Ok") <=> (readKind = "ready")
          /\ readKind \in {"failed", "eof", "error"} => result = "ErrDaemon"

C1_Witness ==
    /\ origpc = "done"
    /\ readKind = "eof"
    /\ result = "ErrDaemon"

\* The Background process is gone, or has closed its write-end, and never wrote
\* a byte.
BgSilent == bgpc # "none" /\ bgWrite = "closed" /\ sent = <<>>

\* C2 (under FairSpecFault).  Whenever the Background process has terminated
\* or closed its write-end without having written an outcome byte, the
\* Originator's read ends (end-of-file, or a read error) and daemonize
\* eventually returns the error "Daemon failed to start".
C2_NeverHangs ==
    BgSilent ~> (origpc = "done" /\ result = "ErrDaemon" /\ readKind \in {"eof", "error"})

C2_Witness ==
    /\ bgExit = "killed"
    /\ sent = <<>>
    /\ origpc = "done"
    /\ readKind = "eof"
    /\ result = "ErrDaemon"

\* C3.  If the Worker terminated before ready_check had ever returned true
\* (the Probe being false at that moment), daemonize returns failure in the
\* Originator.
C3_FailsWhenWorkerEndsFirst ==
    origpc = "done" /\ workerEndedUnready = "probe_false" => result = "ErrDaemon"

\* What the loop does guarantee there: if the Worker terminated before
\* ready_check had ever returned true and ready_check does not return true at
\* the poll that follows either, the loop ends with FAILED after at most one
\* more sleep, the Background process exits with status 1 and daemonize
\* returns failure.
FailsEarlyWhenProbeStaysFalse ==
    /\ sleepsAfterEnd <= 1
    /\ workerEndedUnready # "no" /\ ~probeEverTrue /\ breakReason # "none" =>
          /\ breakReason \in {"finished", "deadline"}
          /\ ~ready
          /\ sent \in {<<>>, <<FAILED>>}
          /\ bgpc = "exited" => bgExit = "exit1"
    /\ workerEndedUnready # "no" /\ ~probeEverTrue /\ origpc = "done" => result = "ErrDaemon"

FailsEarlyReached ==
    /\ workerEndedUnready = "probe_false"
    /\ ~probeEverTrue
    /\ breakReason = "finished"
    /\ elapsed + PollInterval < timeout
    /\ bgExit = "exit1"
    /\ origpc = "done"
    /\ result = "ErrDaemon"

C5_BoundedFailure ==
    /\ lateProbeCalls <= 1
    /\ probeCalls <= ((timeout + PollInterval - 1) \div PollInterval) + 1
    /\ elapsed <= timeout + PollInterval
    /\ origpc = "done" /\ ~probeEverTrue => IsFailure(result)

C5_Witness ==
    /\ origpc = "done"
    /\ ~probeEverTrue
    /\ breakReason = "deadline"
    /\ timeout > 0
    /\ elapsed > timeout
    /\ lateProbeCalls = 1
    /\ result = "ErrDaemon"

\* C6 as stated: the Probe became true before the deadline and before the
\* Worker terminated (and stayed true): daemonize returns success.
C6_Original ==
    origpc = "done" /\ trueInTime # "no" => result = "Ok"

\* C6, amended.  If the Probe becomes true before the deadline (or before the
\* first poll) while the Worker runs, and the Probe stays true and the Worker
\* keeps running until ready_check is next evaluated, the loop ends with READY
\* no later than timeout + 50 ms and daemonize returns success.
C6_Amended ==
    /\ trueInTime = "alive" /\ breakReason # "none" =>
          /\ breakReason = "ready"
          /\ ready
          /\ elapsed <= timeout + PollInterval
    /\ trueInTime = "alive" /\ origpc = "done" => result = "Ok"

C6_Witness ==
    /\ trueInTime = "alive"
    /\ probeCalls > 1
    /\ elapsed >= timeout
    /\ origpc = "done"
    /\ result = "Ok"

C8_EintrTransparent ==
    /\ Len(sent) <= 1
    /\ bytesRead <= 1
    /\ bytesRead + Len(pipeBuf) = Len(sent)
    /\ readKind # "eintr"
    /\ sent # <<>> => sent = <<SignalByte(breakReason = "ready")>>
    /\ origpc = "done" /\ bgpc # "none" => ((result = "Ok") <=> (breakReason = "ready"))

C8_Witness ==
    /\ eintrReads > 0
    /\ eintrWrites > 0
    /\ origpc = "done"
    /\ result = "Ok"
    /\ bytesRead = 1

\* C9 (under SpecMount).  When option resolution fails or the mount target
\* does not exist, mount returns the error without creating a pipe or a
\* Background process and without starting the Worker.
C9_SetupErrors ==
    ~resolveOk \/ ~mountpointExists =>
        /\ origpc \in {"resolve", "exists", "done"}
        /\ origRead = "none" /\ origWrite = "none"
        /\ bgpc = "none"
        /\ worker = "not_started"
        /\ origpc = "done" => result = (IF resolveOk THEN "ErrMountpoint" ELSE "ErrResolve")

C9_Witness ==
    /\ resolveOk
    /\ ~mountpointExists
    /\ origpc = "done"
    /\ result = "ErrMountpoint"

\* C10.  When fork fails, daemonize returns an error with both descriptors
\* closed; there is no Background process, the Worker was never started and
\* ready_check never evaluated.
C10_ForkFailure ==
    result = "ErrFork" =>
        /\ origpc = "done"
        /\ origRead = "closed" /\ origWrite = "closed"
        /\ bgpc = "none" /\ bgRead = "none" /\ bgWrite = "none"
        /\ worker = "not_started"
        /\ probeCalls = 0
        /\ pipeBuf = <<>>

C10_Witness ==
    /\ result = "ErrFork"
    /\ origpc = "done"

\* C11.  Whenever the Worker runs in the Background process, that process's
\* standard streams are redirected to /dev/null (and stay so).
C11_StdioRedirected ==
    worker = "running" /\ bgpc # "none" => stdio = "devnull"

\* C12.  With a zero timeout ready_check is evaluated at most once and the loop
\* never sleeps; when that evaluation is false the outcome is FAILED.
C12_ZeroTimeout ==
    timeout = 0 =>
        /\ probeCalls <= 1
        /\ bgpc # "sleep"
        /\ elapsed = 0
        /\ probeCalls = 1 /\ ~probeEverTrue /\ breakReason # "none" =>
              /\ breakReason \in {"finished", "deadline"}
              /\ ~ready
              /\ sent \in {<<>>, <<FAILED>>}

C12_Witness ==
    /\ timeout = 0
    /\ probeCalls = 1
    /\ breakReason = "deadline"
    /\ worker = "running"
    /\ sent = <<FAILED>>

\* The positions of the child's branch of daemonize; none is past its end.
ChildPositions ==
    {"close_read", "setsid", "signal_detach", "exit_detach", "redirect", "spawn",
     "start", "poll_ready", "poll_finished", "poll_deadline", "sleep",
     "signal", "close_write", "check_ready", "join", "exited"}

\* C13.  The Background process never returns from daemonize: it is always
\* inside the child's branch, it stops only by process exit with status 0 or 1
\* (or while join waits for a running Worker), and the caller's result exists
\* only in the Originator.
C13_ChildNeverReturns ==
    /\ bgpc \in ChildPositions \cup {"none"}
    /\ bgpc = "exited" <=> bgExit \in {"exit0", "exit1"}
    /\ bgpc # "none" /\ ~ENABLED BgStep =>
          \/ bgpc = "exited"
          \/ bgpc = "join" /\ worker = "running"

C13_Witness ==
    /\ bgpc = "exited"
    /\ bgExit = "exit1"
    /\ breakReason = "ready"
    /\ worker = "panic"

\* C14 (under SpecMount).  In foreground mode mount creates no pipe and no
\* Background process and never evaluates ready_check; the Worker runs in the
\* calling process and mount returns the Worker's own result.
C14_ForegroundBypass ==
    foreground =>
        /\ origpc \in {"resolve", "exists", "dispatch", "fg_run", "done"}
        /\ origRead = "none" /\ origWrite = "none"
        /\ bgpc = "none"
        /\ probeCalls = 0
        /\ sent = <<>>
        /\ origpc = "fg_run" => worker # "not_started"
        /\ origpc = "done" /\ resolveOk /\ mountpointExists =>
              result = (CASE worker = "ok" -> "Ok"
                          [] worker = "err" -> "ErrWorker"
                          [] OTHER -> "Panic")

C14_Witness ==
    /\ foreground
    /\ origpc = "done"
    /\ worker = "err"
    /\ result = "ErrWorker"

\* C15.  At most one outcome byte is ever written, and the Background process's
\* write-end is closed only after that byte was written.
C15_OneOutcome ==
    /\ Len(sent) <= 1
    /\ bgWrite = "closed" => Len(sent) = 1
    /\ bgpc \in {"close_write", "exit_detach"} => Len(sent) = 1 /\ bgWrite = "open"

C15_Witness ==
    /\ bgpc = "check_ready"
    /\ bgWrite = "closed"
    /\ sent = <<FAILED>>

\* C16.  Once READY has been written ready_check is not evaluated again, and
\* the Background process exits only when the Worker has terminated, with
\* status 0 if the Worker returned Ok and 1 otherwise.
C16_CommitsAfterReady ==
    [][/\ sent = <<READY>> => probeCalls' = probeCalls
       /\ sent' = <<READY>> /\ bgpc' = "exited" =>
             /\ worker' \in {"ok", "err", "panic"}
             /\ bgExit' = (IF worker' = "ok" THEN "exit0" ELSE "exit1")]_vars

C16_Witness ==
    /\ sent = <<READY>>
    /\ bgpc = "exited"
    /\ worker = "err"
    /\ bgExit = "exit1"

\* C17.  After a failed setsid the Background process writes FAILED and exits
\* with status 1 without redirecting the standard streams, starting the Worker
\* or evaluating ready_check; the Originator reads FAILED and returns an error.
C17_DetachFailure ==
    ~detached /\ bgpc \notin {"none", "close_read", "setsid"} =>
        /\ bgpc \in {"signal_detach", "exit_detach", "exited"}
        /\ stdio = "inherited"
        /\ worker = "not_started"
        /\ probeCalls = 0
        /\ bgpc \in {"exit_detach", "exited"} => sent = <<FAILED>>
        /\ bgpc = "exited" => bgExit = "exit1"
        /\ origpc \in {"p_close_read", "p_return", "done"} => readKind = "failed"
        /\ origpc = "done" => result = "ErrDaemon"

C17_Witness ==
    /\ ~detached
    /\ bgpc = "exited"
    /\ bgExit = "exit1"
    /\ origpc = "done"
    /\ result = "ErrDaemon"

C19_SuccessIsSound ==
    result = "Ok" =>
        /\ detached
        /\ worker # "not_started"
        /\ probeEverTrue
        /\ breakReason = "ready"
        /\ sent = <<READY>>

C19_Witness ==
    /\ result = "Ok"
    /\ bgpc = "join"
    /\ worker = "running"

\* The immediate parent of p, "/" when p has no non-empty parent.
ImmediateParent(p) ==
    IF Len(p.comps) = 0 \/ (~p.abs /\ Len(p.comps) = 1)
      THEN RootPath
      ELSE [abs |-> p.abs, comps |-> [i \in 1..(Len(p.comps) - 1) |-> p.comps[i]]]

\* C20 (under SpecProbe).  is_mounted returns true exactly when metadata of
\* the path and of its immediate parent ("/" when the path has no non-empty
\* parent) can both be retrieved and their device identifiers differ;
\* otherwise it returns false, it never fails.
C20_IsMounted ==
    /\ probepc = "returned" => probeResult \in {"true", "false"}
    /\ probepc = "returned" =>
          ((probeResult = "true") <=>
              /\ fsDev[probePath] # NoMeta
              /\ fsDev[ImmediateParent(probePath)] # NoMeta
              /\ fsDev[probePath] # fsDev[ImmediateParent(probePath)])
    /\ probepc \in {"path_meta", "parent", "parent_meta", "compare", "returned"}

C20_Witness ==
    /\ probepc = "returned"
    /\ probePath = [abs |-> FALSE, comps |-> <<"a">>]
    /\ fsDev[probePath] = 2
    /\ fsDev[RootPath] = 1
    /\ probeResult = "true"

====
